---- MODULE Spec2Model ----
(***************************************************************************)
(* Model of pose_editor.core.triangulation.triangulate_point: the          *)
(* camera-subset search that triangulates one marker of one frame.         *)
(*                                                                         *)
(* The numerical kernel (SVD of the weighted DLT system, reprojection and  *)
(* the mean of the per-camera distances) is a deterministic function of    *)
(* the observations, weights and projection matrices of the cameras of a   *)
(* subset.  It is represented by one input of the call, `mean_error`: the   *)
(* mean reprojection error of every subset of two or more cameras, or      *)
(* QNaN for a subset whose decomposition yields a NaN point.               *)
(* A 3D point Q is represented by the set of cameras it was solved from.   *)
(* Errors, qualities and the threshold are small integers; a calibration   *)
(* entry is either present and well formed or absent.                      *)
(*                                                                         *)
(* Spec runs the call on three cameras with every quality, calibration,    *)
(* min_cameras, min_quality and error map within the bounds.  SpecFour     *)
(* runs it on four calibrated cameras with a restricted family of          *)
(* qualities and error maps.                                               *)
(***************************************************************************)
EXTENDS Integers, Sequences, FiniteSets, TLC

\* ---------------------------------------------------------------- bounds
\* Finite mean reprojection errors range over 0..MaxErr.
MaxErr == 3
\* Observation qualities and min_quality range over 0..MaxQuality.
MaxQuality == 1
\* min_cameras ranges over 0..MaxMinCameras.
MaxMinCameras == 4
\* In the four-camera inputs at most MaxGood subsets have an error at or
\* below the threshold; the others have the error MaxErr.
MaxGood == 2

\* np.inf: larger than every finite error.
Inf == MaxErr + 1
\* The entry of mean_error for a subset whose SVD gives a NaN point.
QNaN == -1

\* Keys of points_2d_by_camera, in dictionary order.
FixtureCameras == <<"cam1", "cam2", "cam3">>
FourCameras == <<"cam1", "cam2", "cam3", "cam4">>

Qualities == 0..MaxQuality
ErrVals == (0..MaxErr) \cup {Inf}
Thresholds == {MaxErr - 1}

\* Python None for Q_best and best_cam_indices; the NaN point.
NoneQ == {"None"}
NoneIndices == <<-1>>
NaNQ == {}

VARIABLES
    camera_names,            \* list(points_2d_by_camera.keys())
    quality,                 \* point_2d[2] of every camera
    calibrated,              \* cameras with a calibration entry
    min_cameras,
    reproj_error_threshold,
    min_quality,
    mean_error,              \* mean reprojection error of a subset, or QNaN
    pc,                      \* "unpack", "search", "format", "done"
    valid_camera_names,
    nb_cams_off,
    error_min,
    Q_best,
    best_cam_indices,
    triangulated,            \* subsets passed to weighted_triangulation, in order
    result

inputs == <<camera_names, quality, calibrated, min_cameras,
            reproj_error_threshold, min_quality, mean_error>>
locals == <<valid_camera_names, nb_cams_off, error_min, Q_best,
            best_cam_indices, triangulated>>
\* ------------------------------------------- pose2sim/triangulate_point.py
\* triangulation_from_best_cameras: cameras are the positions 0..n_cams-1 of
\* the coordinate arrays.  An observation is <<camera, side>>, the side being
\* the original or the left/right-swapped 2D coordinates.  The mean
\* reprojection error of a candidate is the uninterpreted input `kernel`,
\* keyed by the coordinate array handed to weighted_triangulation and the
\* number of its leading entries that are compared with their reprojections.
VARIABLES
    n_cams,
    kpt_quality,                       \* `quality` of coords_2D_kpt
    error_threshold_triangulation,
    min_cameras_for_triangulation,
    handle_LR_swap,
    cv2_bound,                         \* the name cv2 resolves in the module's globals
    kernel,
    Q_out,                             \* the local `Q`
    best_cams,
    nb_cams_excluded,
    id_cams_off_tot,
    nb_cams_off_tot,
    x_filt,                            \* x_filt and y_filt, one array per configuration
    Q_filt,
    n_cams_swapped,
    error_off_swap_min,
    id_off_cams,
    svd_inputs,                        \* arrays cv2.SVDecomp was run for
    swap_log,                          \* the passes of the swap loop, in order
    exception,
    returned

best_inputs == <<n_cams, kpt_quality, error_threshold_triangulation,
                 min_cameras_for_triangulation, handle_LR_swap, cv2_bound, kernel>>
best_locals == <<Q_out, best_cams, nb_cams_excluded, id_cams_off_tot,
                 nb_cams_off_tot, x_filt, Q_filt, n_cams_swapped,
                 error_off_swap_min, id_off_cams>>
best_vars == <<best_inputs, best_locals, svd_inputs, swap_log, exception, returned>>

\* RealPersonInstanceFacade.triangulate: the loop position, the four output
\* arrays, and what each (frame, marker) pair gave.
VARIABLES
    all_camera_names,
    frame_offset,
    marker_idx,
    output_locations,
    output_reprojection_errors,
    output_cam_counts,
    output_cam_bools,
    pair_results

facade_vars == <<all_camera_names, frame_offset, marker_idx, output_locations,
                 output_reprojection_errors, output_cam_counts, output_cam_bools,
                 pair_results>>

\* The caller of triangulate_point: how many calls returned before the
\* current one.
VARIABLE earlier_calls

\* PE_OT_TriangulatePerson.execute (blender/operators.py): the operator's
\* properties, the scene, the selection, the locals of execute, what was
\* reported, the calls of facade.triangulate made, and the returned set.
VARIABLES
    frame_range,                \* self.frame_range
    self_start_frame,           \* self.start_frame
    self_end_frame,             \* self.end_frame
    scene_frame_current,        \* context.scene.frame_current
    scene_frame_start,
    scene_frame_end,
    selected_objects,           \* context.selected_objects, by name
    object_type,                \* POSE_EDITOR_OBJECT_TYPE of every object
    start_frame,
    end_frame,
    selected_person_facades,
    facade_pos,                 \* position of the for loop in the list
    reports,
    triangulate_calls,
    op_pc,                      \* "execute", "loop", "returned"
    op_result

operator_vars == <<frame_range, self_start_frame, self_end_frame,
                   scene_frame_current, scene_frame_start, scene_frame_end,
                   selected_objects, object_type, start_frame, end_frame,
                   selected_person_facades, facade_pos, reports,
                   triangulate_calls, op_pc, op_result>>

caller_vars == <<earlier_calls, operator_vars>>

vars == <<inputs, pc, locals, result, best_vars, facade_vars, caller_vars>>

OperatorIdle ==
    /\ frame_range = "SCENE_RANGE"
    /\ self_start_frame = 0
    /\ self_end_frame = 0
    /\ scene_frame_current = 0
    /\ scene_frame_start = 0
    /\ scene_frame_end = 0
    /\ selected_objects = <<>>
    /\ object_type = <<>>
    /\ start_frame = 0
    /\ end_frame = 0
    /\ selected_person_facades = <<>>
    /\ facade_pos = 0
    /\ reports = <<>>
    /\ triangulate_calls = <<>>
    /\ op_pc = "idle"
    /\ op_result = {}

CallerIdle ==
    /\ earlier_calls = 0
    /\ OperatorIdle

\* ------------------------------------------------------------- helpers
Range(s) == {s[i] : i \in 1..Len(s)}

RECURSIVE SelectNames(_, _, _)
\* The elements of the list `names` that are in `keep`, order preserved.
SelectNames(names, keep, i) ==
    IF i > Len(names) THEN <<>>
    ELSE (IF names[i] \in keep THEN <<names[i]>> ELSE <<>>)
         \o SelectNames(names, keep, i + 1)

\* A filter that forgets the calibration entry.
Eligible_IgnoresCalibration(name, mq) == quality[name] >= mq
\* Line 80: `if calib and point_2d[2] >= min_quality`.
Eligible(name, mq) == name \in calibrated /\ quality[name] >= mq

\* Lines 100-108: the cameras that keep a projection matrix.
ValidCameraNames(mq) ==
    SelectNames(camera_names, {c \in Range(camera_names) : Eligible(c, mq)}, 1)

\* An early return that is one camera too lenient.
InsufficientCameras_OffByOne(n, mincams) == n < mincams - 1
\* Line 101.
InsufficientCameras(n, mincams) == n < mincams

RECURSIVE Combinations(_, _, _)
\* it.combinations(range(lo, n), r): ascending index tuples, lexicographic.
Combinations(lo, n, r) ==
    IF r = 0 THEN << <<>> >>
    ELSE IF n - lo < r THEN <<>>
    ELSE LET withLo == Combinations(lo + 1, n, r - 1)
         IN  [i \in 1..Len(withLo) |-> <<lo>> \o withLo[i]]
             \o Combinations(lo + 1, n, r)

\* valid_camera_names[i] for i in cam_indices, as a set.
CamSet(valid, idx) == {valid[idx[i] + 1] : i \in 1..Len(idx)}

\* A row check that accepts the two rows of a single camera.
weighted_triangulation_TwoRows(cams) ==
    IF 2 * Cardinality(cams) >= 2 /\ (Cardinality(cams) < 2 \/ mean_error[cams] # QNaN)
    THEN cams ELSE NaNQ
\* Lines 25-38: two rows per camera; fewer than 4 rows gives the NaN point.
weighted_triangulation(cams) ==
    IF 2 * Cardinality(cams) >= 4 /\ mean_error[cams] # QNaN THEN cams ELSE NaNQ

\* Lines 136-142: reprojection, distances and their mean.  A point solved
\* from fewer than two cameras lies on the camera's ray: it reprojects onto
\* the observation.
MeanReprojError(cams) == IF Cardinality(cams) < 2 THEN 0 ELSE mean_error[cams]

RECURSIVE EvalCombos(_, _, _)
\* Lines 122-146: the configurations appended for one cameras-off level.
EvalCombos(valid, combos, i) ==
    IF i > Len(combos) THEN <<>>
    ELSE LET idx == combos[i]
             cams == CamSet(valid, idx)
             Q == weighted_triangulation(cams)
         IN  (IF idx = <<>> \/ Q = NaNQ
              THEN <<>>
              ELSE <<[error |-> MeanReprojError(cams), Q |-> Q, indices |-> idx]>>)
             \o EvalCombos(valid, combos, i + 1)

\* Lines 122-132: the non-empty combinations handed to weighted_triangulation.
Triangulated(valid, combos) ==
    LET ne == SelectSeq(combos, LAMBDA idx : idx # <<>>)
    IN  [i \in 1..Len(ne) |-> CamSet(valid, ne[i])]

\* min(error_configs)
MinError(configs) ==
    CHOOSE e \in {configs[i].error : i \in 1..Len(configs)} :
        \A i \in 1..Len(configs) : e <= configs[i].error

\* An argmin that takes the first configuration of the level.
ArgMin_First(configs) == 1
\* An argmin that takes the last configuration of the level.
ArgMin_Last(configs) == Len(configs)
\* np.argmin(error_configs): the first position of the minimum.
ArgMin(configs) ==
    CHOOSE i \in 1..Len(configs) :
        /\ configs[i].error = MinError(configs)
        /\ \A j \in 1..(i - 1) : configs[j].error # MinError(configs)

\* A loop that never leaves on its own condition.
LoopGuard_Always(n, k, mincams) == TRUE
\* A loop that stops one level early.
LoopGuard_StopsEarly(n, k, mincams) == n - k > mincams
\* Line 117.
LoopGuard(n, k, mincams) == n - k >= mincams
\* An update that also replaces the best on a tie.
Improves_OrEqual(levelMin, errMin) == levelMin <= errMin
\* An update that keeps the best of the current level only.
Improves_Always(levelMin, errMin) == TRUE
\* Line 153.
Improves(levelMin, errMin) == levelMin < errMin
\* Line 159.
BreakNow(errMin, thr) == errMin < thr
\* A final test that forgets the threshold.
Fails_NoThreshold(Q, errMin, thr) == Q = NoneQ
\* Line 165.
Fails(Q, errMin, thr) == Q = NoneQ \/ errMin > thr

\* Line 122: it.combinations(range(n_cams), r) raises ValueError for r < 0.
NegativeLength(n, k) == n - k < 0

\* Lines 112-116: the loop state before the first level.
SearchStart ==
    [nb_cams_off |-> 0, error_min |-> Inf, Q_best |-> NoneQ,
     best_cam_indices |-> NoneIndices, triangulated |-> <<>>, broke |-> FALSE]

\* Lines 148-162: the end of one iteration, given the configurations of the
\* level (error_configs, q_configs, indices_configs).
LevelUpdate(seen, configs, thr) ==
    IF configs = <<>>
    THEN [seen EXCEPT !.nb_cams_off = @ + 1]
    ELSE LET b == ArgMin(configs)
             upd == IF Improves(MinError(configs), seen.error_min)
                    THEN [seen EXCEPT !.error_min = MinError(configs),
                                      !.Q_best = configs[b].Q,
                                      !.best_cam_indices = configs[b].indices]
                    ELSE seen
         IN  IF BreakNow(upd.error_min, thr)
             THEN [upd EXCEPT !.broke = TRUE]
             ELSE [upd EXCEPT !.nb_cams_off = @ + 1]

\* Lines 118-162: one iteration of the while loop.  The configurations are
\* computed once and handed on as a value.
LevelStep(st, valid, thr) ==
    LET n == Len(valid)
        combos == Combinations(0, n, n - st.nb_cams_off)
        seen == [st EXCEPT !.triangulated = @ \o Triangulated(valid, combos)]
    IN  CHOOSE next \in {LevelUpdate(seen, configs, thr) :
                            configs \in {EvalCombos(valid, combos, 1)}} : TRUE

NoResult ==
    [is_none |-> TRUE, point_3d |-> NaNQ, contributing_cameras |-> <<>>,
     reprojection_error |-> Inf]

\* Lines 164-174.
FormatOutput(st, valid, thr) ==
    IF Fails(st.Q_best, st.error_min, thr)
    THEN NoResult
    ELSE [is_none |-> FALSE,
          point_3d |-> st.Q_best,
          contributing_cameras |->
              [i \in 1..Len(st.best_cam_indices) |-> valid[st.best_cam_indices[i] + 1]],
          reprojection_error |-> st.error_min]

RECURSIVE SearchLoop(_, _, _, _)
\* Lines 116-162: the while loop run to its end.
SearchLoop(st, valid, mincams, thr) ==
    IF st.broke \/ ~LoopGuard(Len(valid), st.nb_cams_off, mincams)
    THEN st
    ELSE SearchLoop(LevelStep(st, valid, thr), valid, mincams, thr)

\* Lines 63-174 as a function of min_quality, the other inputs being the state's.
triangulate_point(mq) ==
    LET valid == ValidCameraNames(mq)
    IN  IF InsufficientCameras(Len(valid), min_cameras)
        THEN NoResult
        ELSE FormatOutput(SearchLoop(SearchStart, valid, min_cameras,
                                     reproj_error_threshold),
                          valid, reproj_error_threshold)

\* ------------------------------------------- pose2sim/triangulate_point.py
FiveCameras == <<0, 1, 2, 3, 4>>
UnboundIndex == -1
UnboundSeq == <<>>

\* One component of a point.
NaNComponent == [nan |-> TRUE, solved_from |-> <<>>]
One == [nan |-> FALSE, solved_from |-> <<>>]
Solved(obs) == [nan |-> FALSE, solved_from |-> obs]
NaNPoint3 == <<NaNComponent, NaNComponent, NaNComponent>>

Original(c) == <<c, "orig">>
Swapped(c) == <<c, "swap">>

\* A row check that asks for the SVD of any non-empty matrix.
NeedsSVD_AnyRow(obs) == 2 * Len(obs) >= 2
\* pose2sim line 24 (core line 32): two rows per observation, `>= 4`.
NeedsSVD(obs) == 2 * Len(obs) >= 4

\* Lines 19-20 and 47-48, called with projection_matrices_filt[i], which is
\* the whole list projection_matrices (line 140): the camera whose matrix
\* P_all[c] meets the c-th observation of the array, c counted from 1.
MatrixCamera(c) == c - 1

\* pose2sim lines 18-31 (core lines 25-38): the returned array (x, y, z, 1.).
Pose2Sim_weighted_triangulation(obs) ==
    IF NeedsSVD(obs)
    THEN <<Solved(obs), Solved(obs), Solved(obs), One>>
    ELSE <<NaNComponent, NaNComponent, NaNComponent, One>>

\* Q[:-1]
DropLast(q) == SubSeq(q, 1, Len(q) - 1)

\* NaN-aware comparisons: a comparison with NaN is False.
Exceeds(a, b) == a # QNaN /\ b # QNaN /\ a > b
\* A comparison that never finds the swapped error lower.
Below_Never(a, b) == FALSE
Below(a, b) == a # QNaN /\ b # QNaN /\ a < b

\* Lines 146-154 and 260-263: the cameras a configuration keeps.
KeptCams(q, off) ==
    SelectSeq([j \in 1..Len(q) |-> j - 1],
              LAMBDA c : c \notin Range(off) /\ q[c + 1] # 0)

\* Lines 142-154 and 220-239: x_filt[i], y_filt[i].
FilteredCoords(q, off) ==
    LET kept == KeptCams(q, off)
    IN  [j \in 1..Len(kept) |-> Original(kept[j])]

\* Lines 158-160: NaNs and zeros of quality_filt[i].
CountExcluded(q, off) ==
    Cardinality({c \in 0..(Len(q) - 1) : c \in Range(off) \/ q[c + 1] = 0})

MaxOf(s) == CHOOSE m \in Range(s) : \A i \in 1..Len(s) : s[i] <= m

\* Lines 295-314 and 409-446: reprojection through the matrices and the mean
\* distance over the first `compared` entries.
ReprojError(obs, compared) ==
    IF <<obs, compared>> \in DOMAIN kernel THEN kernel[<<obs, compared>>] ELSE MaxErr

\* Lines 304-314: np.mean of no distance is NaN; the distance to the
\* reprojection of the NaN point is inf.
ConfigError(obs) ==
    IF Len(obs) = 0 THEN QNaN
    ELSE IF ~NeedsSVD(obs) THEN Inf
    ELSE ReprojError(obs, Len(obs))

\* np.nanmin
NanMin(errs) ==
    IF \A i \in 1..Len(errs) : errs[i] = QNaN THEN QNaN
    ELSE CHOOSE e \in {errs[i] : i \in 1..Len(errs)} \ {QNaN} :
             \A i \in 1..Len(errs) : errs[i] = QNaN \/ e <= errs[i]

\* np.nanargmin, 0-based: the first position of the minimum.
NanArgMin(errs) ==
    (CHOOSE i \in 1..Len(errs) :
        /\ errs[i] = NanMin(errs)
        /\ \A j \in 1..(i - 1) : errs[j] # NanMin(errs)) - 1

\* Line 130.
OuterGuard(errMin, thr, n, k, mincams) == Exceeds(errMin, thr) /\ n - k >= mincams

\* Line 164.
TooFewLeft(tot, n, mincams) == tot > n - mincams

\* A search that never tries the swap.
SwapWanted_Never(swap, errMin, thr) == FALSE
\* Line 333: `if handle_LR_swap and error_min > error_threshold_triangulation`.
SwapWanted(swap, errMin, thr) == swap /\ Exceeds(errMin, thr)

\* A swap loop that also swaps half of the remaining cameras.
SwapGuard_AllowsHalf(errSwapMin, thr, k, remaining) ==
    Exceeds(errSwapMin, thr) /\ 2 * k <= remaining
\* A swap loop bounded by floor(remaining / 2) - 1.
SwapGuard_FloorHalf(errSwapMin, thr, k, remaining) ==
    Exceeds(errSwapMin, thr) /\ k <= (remaining \div 2) - 1
\* A swap loop that goes on after the threshold is met.
SwapGuard_IgnoresThreshold(errSwapMin, thr, k, remaining) == 2 * k < remaining
\* Line 338: `n_cams_swapped < (n_cams - nb_cams_off_tot) / 2`, a true division.
SwapGuard(errSwapMin, thr, k, remaining) ==
    Exceeds(errSwapMin, thr) /\ 2 * k < remaining

\* Lines 353-358 for one configuration: the positions of config_swapped take
\* the swapped coordinates of the same position.
WriteConfig(row, config) ==
    [j \in 1..Len(row) |->
        IF (j - 1) \in Range(config) THEN Swapped(row[j][1]) ELSE row[j]]

RECURSIVE WriteSwapped(_, _, _)
\* Lines 344-358: `[x] * len(id_cams_swapped)` repeats one array object, so the
\* writes of every id_swapped land in that one array.
WriteSwapped(row, combos, i) ==
    IF i > Len(combos) THEN row
    ELSE WriteSwapped(WriteConfig(row, combos[i]), combos, i + 1)

\* Lines 344-358: x_filt_off_swap[id_off][id_swapped] after the writes.
XFiltOffSwap(rows, combos) ==
    [id_off \in 1..Len(rows) |->
        [id_swapped \in 1..Len(combos) |-> WriteSwapped(rows[id_off], combos, 1)]]

\* error_off_swap flattened in row-major order, with its 0-based indices.
Flatten(matrix, width) ==
    [p \in 1..(Len(matrix) * width) |->
        matrix[((p - 1) \div width) + 1][((p - 1) % width) + 1]]

\* A final test that keeps every finite error.
FinalFails_OnlyInf(errMin, thr) == errMin = Inf
\* Line 485.
FinalFails(errMin, thr) == Exceeds(errMin, thr)

BestIdle ==
    /\ n_cams = 0
    /\ kpt_quality = <<>>
    /\ error_threshold_triangulation = 0
    /\ min_cameras_for_triangulation = 0
    /\ handle_LR_swap = FALSE
    /\ cv2_bound = FALSE
    /\ kernel = <<>>
    /\ Q_out = UnboundSeq
    /\ best_cams = UnboundIndex
    /\ nb_cams_excluded = UnboundIndex
    /\ id_cams_off_tot = UnboundSeq
    /\ nb_cams_off_tot = UnboundIndex
    /\ x_filt = UnboundSeq
    /\ Q_filt = UnboundSeq
    /\ n_cams_swapped = UnboundIndex
    /\ error_off_swap_min = QNaN
    /\ id_off_cams = UnboundIndex
    /\ svd_inputs = {}
    /\ swap_log = <<>>
    /\ exception = "none"
    /\ returned = [Q |-> UnboundSeq, error_min |-> QNaN,
                   nb_cams_excluded |-> UnboundIndex, id_excluded_cams |-> UnboundSeq]

\* ----------------------------------------------- core/person_facade.py
\* RealPersonInstanceFacade.triangulate, lines 306-364: the batch loop.
\* The frames of the range and the markers of the skeleton.
FrameOffsets == <<0, 1>>
MarkerNodes == <<"marker0", "marker1">>
num_frames == Len(FrameOffsets)
num_markers == Len(MarkerNodes)
\* The calibration camera names of person_pdvs, in order.
ViewCameras == FixtureCameras

\* triangulate_point's defaults, which the call of line 350 leaves in force.
DefaultMinCameras == 2
DefaultMinQuality == MaxQuality

AllPairs == {<<fo, mi>> : fo \in Range(FrameOffsets), mi \in 0..(num_markers - 1)}

\* Lines 312-315.
FreshOutput(names) ==
    [locations |-> [r \in 1..num_frames |-> [c \in 1..(num_markers * 3) |-> NaNQ]],
     reprojection_errors |-> [r \in 1..num_frames |-> [c \in 1..num_markers |-> QNaN]],
     cam_counts |-> [r \in 1..num_frames |-> [c \in 1..num_markers |-> 0]],
     cam_bools |-> [r \in 1..num_frames |->
                       [c \in 1..(num_markers * Len(names)) |-> FALSE]]]

\* A test that stores whatever the call gave.
HasResult_Always(n_points, r) == TRUE
\* Lines 349 and 355: `len(points_2d_by_camera) >= 2` and `if result`.
HasResult(n_points, r) == n_points >= 2 /\ ~r.is_none

\* A location slice two columns wide.
LocColStart_Packed(mi) == mi * 2
\* Line 356.
LocColStart(mi) == mi * 3

\* Line 363.
BoolColStart(mi, names) == mi * Len(names)

\* A flag that is set for every known camera.
Contributes_Always(cam_name, r) == TRUE
\* Line 364: `cam_name in result.contributing_cameras`.
Contributes(cam_name, r) == cam_name \in Range(r.contributing_cameras)

RECURSIVE SetFlags(_, _, _, _, _, _)
\* Lines 362-364: the loop over enumerate(all_camera_names), from cam_idx on.
SetFlags(bools, fo, mi, r, names, cam_idx) ==
    IF cam_idx >= Len(names) THEN bools
    ELSE SetFlags([bools EXCEPT ![fo + 1][BoolColStart(mi, names) + cam_idx + 1] =
                       Contributes(names[cam_idx + 1], r)],
                  fo, mi, r, names, cam_idx + 1)

\* Lines 356-364: the four writes of one (frame, marker) pair.
StoreResult(out, fo, mi, r, names) ==
    [locations |->
        [out.locations EXCEPT ![fo + 1][LocColStart(mi) + 1] = r.point_3d,
                              ![fo + 1][LocColStart(mi) + 2] = r.point_3d,
                              ![fo + 1][LocColStart(mi) + 3] = r.point_3d],
     reprojection_errors |->
        [out.reprojection_errors EXCEPT ![fo + 1][mi + 1] = r.reprojection_error],
     cam_counts |->
        [out.cam_counts EXCEPT ![fo + 1][mi + 1] = Len(r.contributing_cameras)],
     cam_bools |-> SetFlags(out.cam_bools, fo, mi, r, names, 0)]

\* Lines 348-364 for one pair, given what triangulate_point returned for it.
ProcessPair(out, pair, n_points, r, names) ==
    IF HasResult(n_points, r) THEN StoreResult(out, pair[1], pair[2], r, names) ELSE out

Output ==
    [locations |-> output_locations,
     reprojection_errors |-> output_reprojection_errors,
     cam_counts |-> output_cam_counts,
     cam_bools |-> output_cam_bools]

NotProcessed == [processed |-> FALSE, n_points |-> 0, result |-> NoResult]

FacadeIdle ==
    /\ all_camera_names = <<>>
    /\ frame_offset = 0
    /\ marker_idx = 0
    /\ output_locations = <<>>
    /\ output_reprojection_errors = <<>>
    /\ output_cam_counts = <<>>
    /\ output_cam_bools = <<>>
    /\ pair_results = <<>>

\* ---------------------------------------------------------------- inputs
\* The subsets that can be reprojected: at least two eligible cameras.
Candidates(mq) ==
    {S \in SUBSET Range(ValidCameraNames(mq)) : Cardinality(S) >= 2}

InitLocals ==
    /\ pc = "unpack"
    /\ valid_camera_names = <<>>
    /\ nb_cams_off = 0
    /\ error_min = Inf
    /\ Q_best = NoneQ
    /\ best_cam_indices = NoneIndices
    /\ triangulated = <<>>
    /\ result = NoResult

InitConfig(names) ==
    /\ camera_names = names
    /\ quality \in [Range(names) -> Qualities]
    /\ calibrated \in SUBSET Range(names)
    /\ min_cameras \in 0..MaxMinCameras
    /\ reproj_error_threshold \in Thresholds
    /\ min_quality \in Qualities

\* Three cameras (the test fixture): every error map.
Init ==
    /\ InitConfig(FixtureCameras)
    /\ mean_error \in [Candidates(min_quality) -> ErrVals \cup {QNaN}]
    /\ InitLocals
    /\ BestIdle
    /\ FacadeIdle
    /\ CallerIdle

\* Four cameras, all calibrated, with two positive qualities of which only
\* the first camera may have the lower; an error map with at most MaxGood
\* subsets at or below the threshold.
FourCamQualities == {MaxQuality, MaxQuality + 1}

\* The error map that is f on the subsets of D and MaxErr elsewhere.
SparseMap(cands, D, f) == [S \in cands |-> IF S \in D THEN f[S] ELSE MaxErr]

InitFour ==
    /\ camera_names = FourCameras
    /\ \E q1 \in FourCamQualities :
           quality = [c \in Range(FourCameras) |->
                         IF c = FourCameras[1] THEN q1 ELSE MaxQuality + 1]
    /\ calibrated = Range(FourCameras)
    /\ min_cameras \in 0..MaxMinCameras
    /\ reproj_error_threshold \in Thresholds
    /\ min_quality \in FourCamQualities
    /\ \E D \in {D \in SUBSET Candidates(min_quality) : Cardinality(D) <= MaxGood} :
           \E f \in [D -> 0..reproj_error_threshold] :
               mean_error = SparseMap(Candidates(min_quality), D, f)
    /\ InitLocals
    /\ BestIdle
    /\ FacadeIdle
    /\ CallerIdle

\* ---------------------------------------------------------------- actions
\* Lines 72-114: unpack, filter, and the early return of line 102.
Unpack ==
    /\ pc = "unpack"
    /\ valid_camera_names' = ValidCameraNames(min_quality)
    /\ IF InsufficientCameras(Len(ValidCameraNames(min_quality)), min_cameras)
       THEN pc' = "done"
       ELSE pc' = "search"
    /\ UNCHANGED <<inputs, nb_cams_off, error_min, Q_best, best_cam_indices,
                   triangulated, result, best_vars, facade_vars, caller_vars>>

CurrentState ==
    [nb_cams_off |-> nb_cams_off, error_min |-> error_min, Q_best |-> Q_best,
     best_cam_indices |-> best_cam_indices, triangulated |-> triangulated,
     broke |-> FALSE]

\* Lines 117-162: one pass of the while loop body.
SearchLevel ==
    /\ pc = "search"
    /\ LoopGuard(Len(valid_camera_names), nb_cams_off, min_cameras)
    /\ ~NegativeLength(Len(valid_camera_names), nb_cams_off)
    /\ \E st \in {LevelStep(CurrentState, valid_camera_names, reproj_error_threshold)} :
           /\ nb_cams_off' = st.nb_cams_off
           /\ error_min' = st.error_min
           /\ Q_best' = st.Q_best
           /\ best_cam_indices' = st.best_cam_indices
           /\ triangulated' = st.triangulated
           /\ pc' = IF st.broke THEN "format" ELSE "search"
    /\ UNCHANGED <<inputs, valid_camera_names, result, best_vars, facade_vars, caller_vars>>

\* Line 117: the loop condition fails.
ExitLoop ==
    /\ pc = "search"
    /\ ~LoopGuard(Len(valid_camera_names), nb_cams_off, min_cameras)
    /\ pc' = "format"
    /\ UNCHANGED <<inputs, locals, result, best_vars, facade_vars, caller_vars>>

\* Lines 164-174.
Format ==
    /\ pc = "format"
    /\ result' = FormatOutput(CurrentState, valid_camera_names, reproj_error_threshold)
    /\ pc' = "done"
    /\ UNCHANGED <<inputs, locals, best_vars, facade_vars, caller_vars>>

Next == Unpack \/ SearchLevel \/ ExitLoop \/ Format

Spec == Init /\ [][Next]_vars

SpecFour == InitFour /\ [][Next]_vars

\* ------------------------------------- triangulation_from_best_cameras
\* The variables of triangulate_point and of the batch loop take no part.
CoreIdle ==
    /\ camera_names = <<>>
    /\ quality = <<>>
    /\ calibrated = {}
    /\ min_cameras = 0
    /\ reproj_error_threshold = 0
    /\ min_quality = 0
    /\ mean_error = <<>>
    /\ valid_camera_names = <<>>
    /\ best_cam_indices = NoneIndices
    /\ triangulated = <<>>
    /\ result = NoResult

core_idle == <<inputs, valid_camera_names, best_cam_indices, triangulated, result>>

\* The observations of the cameras K in position order, those of W swapped.
ObsOf(n, K, W) ==
    LET kept == SelectSeq([j \in 1..n |-> j - 1], LAMBDA c : c \in K)
    IN  [j \in 1..Len(kept) |->
            IF kept[j] \in W THEN Swapped(kept[j]) ELSE Original(kept[j])]

\* Likelihoods: 0 marks an unusable observation.  With five cameras only
\* the first may be unusable.
QualityPatterns(n) ==
    {q \in [1..n -> {0, MaxQuality}] :
        n < Len(FiveCameras) \/ \A j \in 2..n : q[j] # 0}

Usable(q) == {c \in 0..(Len(q) - 1) : q[c + 1] # 0}

\* The threshold of the prototype's runs: below MaxErr - 1, so that an error
\* can lie between the threshold and MaxErr.
BestThresholds == {MaxErr - 2}

\* Every candidate has error MaxErr but at most one, whose error is lower:
\* at or below the threshold, or between the threshold and MaxErr.
InitKernel ==
    \/ kernel = <<>>
    \/ /\ cv2_bound
       /\ \E K \in {K \in SUBSET Usable(kpt_quality) : Cardinality(K) >= 2} :
              \E W \in SUBSET K :
                  \E v \in 0..(MaxErr - 1) :
                      kernel = (<<ObsOf(n_cams, K, W), Cardinality(K)>> :> v)

InitBest ==
    /\ n_cams \in 0..Len(FiveCameras)
    /\ kpt_quality \in QualityPatterns(n_cams)
    /\ error_threshold_triangulation \in BestThresholds
    /\ min_cameras_for_triangulation \in 0..MaxMinCameras
    /\ handle_LR_swap \in BOOLEAN
    /\ cv2_bound \in BOOLEAN
    /\ InitKernel
    /\ pc = "level"
    /\ nb_cams_off = 0
    /\ error_min = Inf
    /\ Q_best = UnboundSeq
    /\ Q_out = UnboundSeq
    /\ best_cams = UnboundIndex
    /\ nb_cams_excluded = UnboundIndex
    /\ id_cams_off_tot = UnboundSeq
    /\ nb_cams_off_tot = UnboundIndex
    /\ x_filt = UnboundSeq
    /\ Q_filt = UnboundSeq
    /\ n_cams_swapped = UnboundIndex
    /\ error_off_swap_min = QNaN
    /\ id_off_cams = UnboundIndex
    /\ svd_inputs = {}
    /\ swap_log = <<>>
    /\ exception = "none"
    /\ returned = [Q |-> UnboundSeq, error_min |-> QNaN,
                   nb_cams_excluded |-> UnboundIndex, id_excluded_cams |-> UnboundSeq]
    /\ CoreIdle
    /\ FacadeIdle
    /\ CallerIdle

\* Lines 133-330: what one pass of the outer loop computes before the swap
\* search, and how it leaves the pass.
LevelPass(n, q, k, mincams, thr, swap, bound) ==
    LET id_cams_off == Combinations(0, n, k)
        configs == 1..Len(id_cams_off)
        nb_cams_excluded_filt == [i \in configs |-> CountExcluded(q, id_cams_off[i])]
        rows == [i \in configs |-> FilteredCoords(q, id_cams_off[i])]
        error == [i \in configs |-> ConfigError(rows[i])]
        best == IF NanMin(error) = QNaN THEN UnboundIndex ELSE NanArgMin(error)
        outcome ==
            IF TooFewLeft(MaxOf(nb_cams_excluded_filt), n, mincams)
            THEN "break"                                      \* line 165
            ELSE IF ~bound /\ \E i \in configs : NeedsSVD(rows[i])
            THEN "NameError"                                  \* line 25
            ELSE IF NanMin(error) = QNaN
            THEN "ValueError"                                 \* line 327
            ELSE IF SwapWanted(swap, NanMin(error), thr)
            THEN "swap"                                       \* line 333
            ELSE "next"
    IN  [outcome |-> outcome,
         nb_cams_off_tot |-> MaxOf(nb_cams_excluded_filt),
         id_cams_off |-> id_cams_off,
         x_filt |-> rows,
         Q_filt |-> [i \in configs |-> Pose2Sim_weighted_triangulation(rows[i])],
         solved |-> {rows[i] : i \in {j \in configs : NeedsSVD(rows[j])}},
         error_min |-> NanMin(error),
         best_cams |-> best,
         nb_cams_excluded |-> IF best = UnboundIndex THEN UnboundIndex
                              ELSE nb_cams_excluded_filt[best + 1],
         Q |-> IF best = UnboundIndex THEN UnboundSeq
               ELSE DropLast(Pose2Sim_weighted_triangulation(rows[best + 1]))]

\* Lines 130-333 and 468: one pass of the outer loop up to the swap search.
BestLevel ==
    /\ pc = "level"
    /\ OuterGuard(error_min, error_threshold_triangulation, n_cams, nb_cams_off,
                  min_cameras_for_triangulation)
    /\ \E lv \in {LevelPass(n_cams, kpt_quality, nb_cams_off,
                             min_cameras_for_triangulation,
                             error_threshold_triangulation, handle_LR_swap, cv2_bound)} :
           LET ran == lv.outcome \notin {"break", "NameError"}
               chose == lv.outcome \in {"swap", "next"}
           IN  /\ nb_cams_off_tot' = lv.nb_cams_off_tot
               /\ pc' = CASE lv.outcome = "break" -> "final"
                          [] lv.outcome \in {"NameError", "ValueError"} -> "raised"
                          [] lv.outcome = "swap" -> "swap"
                          [] OTHER -> "level"
               /\ exception' = IF lv.outcome \in {"NameError", "ValueError"}
                               THEN lv.outcome ELSE exception
               /\ id_cams_off_tot' = IF lv.outcome = "break" THEN id_cams_off_tot
                                     ELSE lv.id_cams_off
               /\ x_filt' = IF lv.outcome = "break" THEN x_filt ELSE lv.x_filt
               /\ Q_filt' = IF ran THEN lv.Q_filt ELSE Q_filt
               /\ svd_inputs' = IF ran THEN svd_inputs \cup lv.solved ELSE svd_inputs
               /\ error_min' = IF ran THEN lv.error_min ELSE error_min
               /\ best_cams' = IF chose THEN lv.best_cams ELSE best_cams
               /\ nb_cams_excluded' = IF chose THEN lv.nb_cams_excluded
                                      ELSE nb_cams_excluded
               /\ Q_out' = IF chose THEN lv.Q ELSE Q_out
               /\ n_cams_swapped' = IF lv.outcome = "swap" THEN 1 ELSE n_cams_swapped
               /\ error_off_swap_min' = IF lv.outcome = "swap" THEN lv.error_min
                                        ELSE error_off_swap_min
               /\ nb_cams_off' = IF lv.outcome = "next" THEN nb_cams_off + 1
                                 ELSE nb_cams_off
    /\ UNCHANGED <<best_inputs, id_off_cams, Q_best, swap_log, returned,
                   core_idle, facade_vars, caller_vars>>

\* Lines 342-457: what one pass of the swap loop computes.
SwapPass(rows, remaining, k) ==
    LET id_cams_swapped == Combinations(0, remaining, k)
        width == Len(id_cams_swapped)
        x_filt_off_swap == XFiltOffSwap(rows, id_cams_swapped)
        error_off_swap ==
            Flatten([id_off \in 1..Len(rows) |->
                        [id_swapped \in 1..width |->
                            ReprojError(x_filt_off_swap[id_off][id_swapped], remaining)]],
                    width)
        best_off_swap_config == NanArgMin(error_off_swap)
        best_row == x_filt_off_swap[(best_off_swap_config \div width) + 1]
                                   [(best_off_swap_config % width) + 1]
    IN  [id_cams_swapped |-> id_cams_swapped,
         x_filt_off_swap |-> x_filt_off_swap,
         error_off_swap |-> error_off_swap,
         error_off_swap_min |-> NanMin(error_off_swap),
         id_off_cams |-> best_off_swap_config \div width,
         Q_best |-> DropLast(Pose2Sim_weighted_triangulation(best_row)),
         x_filt |-> [id_off \in 1..Len(rows) |->
                        WriteSwapped(rows[id_off], id_cams_swapped, 1)],
         solved |-> {x_filt_off_swap[id_off][id_swapped] :
                        id_off \in 1..Len(rows), id_swapped \in 1..width}]

\* Lines 337-459: one pass of the swap loop.
SwapStep ==
    /\ pc = "swap"
    /\ SwapGuard(error_off_swap_min, error_threshold_triangulation, n_cams_swapped,
                 n_cams - nb_cams_off_tot)
    /\ \E sw \in {SwapPass(x_filt, n_cams - nb_cams_off_tot, n_cams_swapped)} :
           /\ error_off_swap_min' = sw.error_off_swap_min
           /\ id_off_cams' = sw.id_off_cams
           /\ Q_best' = sw.Q_best
           /\ x_filt' = sw.x_filt
           /\ svd_inputs' = svd_inputs \cup sw.solved
           /\ swap_log' = Append(swap_log,
                  [nb_cams_off |-> nb_cams_off,
                   remaining |-> n_cams - nb_cams_off_tot,
                   n_cams_swapped |-> n_cams_swapped,
                   id_cams_swapped |-> sw.id_cams_swapped,
                   x_filt_off_swap |-> sw.x_filt_off_swap,
                   error_off_swap |-> sw.error_off_swap])
           /\ n_cams_swapped' = n_cams_swapped + 1
    /\ UNCHANGED <<best_inputs, pc, nb_cams_off, error_min, Q_out, best_cams,
                   nb_cams_excluded, id_cams_off_tot, nb_cams_off_tot, Q_filt,
                   exception, returned, core_idle, facade_vars, caller_vars>>

\* Lines 338 and 461-468: the swap loop ends, and the level with it.
SwapEnd ==
    /\ pc = "swap"
    /\ ~SwapGuard(error_off_swap_min, error_threshold_triangulation, n_cams_swapped,
                  n_cams - nb_cams_off_tot)
    /\ IF Below(error_off_swap_min, error_min)
       THEN /\ error_min' = error_off_swap_min
            /\ best_cams' = id_off_cams
            /\ Q_out' = Q_best
       ELSE UNCHANGED <<error_min, best_cams, Q_out>>
    /\ nb_cams_off' = nb_cams_off + 1
    /\ pc' = "level"
    /\ UNCHANGED <<best_inputs, Q_best, nb_cams_excluded, id_cams_off_tot,
                   nb_cams_off_tot, x_filt, Q_filt, n_cams_swapped,
                   error_off_swap_min, id_off_cams, svd_inputs, swap_log,
                   exception, returned, core_idle, facade_vars, caller_vars>>

\* Line 130: the loop condition fails.
BestExit ==
    /\ pc = "level"
    /\ ~OuterGuard(error_min, error_threshold_triangulation, n_cams, nb_cams_off,
                   min_cameras_for_triangulation)
    /\ pc' = "final"
    /\ UNCHANGED <<best_inputs, best_locals, svd_inputs, swap_log, exception,
                   returned, nb_cams_off, error_min, Q_best, core_idle, facade_vars, caller_vars>>

\* Lines 473-489.
BestReturn ==
    /\ pc = "final"
    /\ returned' =
           [Q |-> IF FinalFails(error_min, error_threshold_triangulation)
                  THEN NaNPoint3 ELSE Q_out,
            error_min |-> IF FinalFails(error_min, error_threshold_triangulation)
                          THEN QNaN ELSE error_min,
            nb_cams_excluded |-> IF best_cams # UnboundIndex
                                 THEN nb_cams_excluded ELSE n_cams,
            id_excluded_cams |-> IF best_cams # UnboundIndex
                                 THEN id_cams_off_tot[best_cams + 1]
                                 ELSE [j \in 1..n_cams |-> j - 1]]
    /\ pc' = "done"
    /\ UNCHANGED <<best_inputs, best_locals, svd_inputs, swap_log, exception,
                   nb_cams_off, error_min, Q_best, core_idle, facade_vars, caller_vars>>

NextBest == BestLevel \/ SwapStep \/ SwapEnd \/ BestExit \/ BestReturn

SpecBest == InitBest /\ [][NextBest]_vars

\* ------------------------------------- RealPersonInstanceFacade.triangulate
\* Lines 248-317: the calibration has the three fixture cameras or only the
\* first two of them; the output arrays are allocated.
InitFacade ==
    /\ all_camera_names \in {FixtureCameras, SubSeq(FixtureCameras, 1, 2)}
    /\ calibrated = Range(all_camera_names)
    /\ min_cameras = DefaultMinCameras
    /\ reproj_error_threshold \in Thresholds
    /\ min_quality = DefaultMinQuality
    /\ camera_names = <<>>
    /\ quality = <<>>
    /\ mean_error = <<>>
    /\ frame_offset = 0
    /\ marker_idx = 0
    /\ output_locations = FreshOutput(all_camera_names).locations
    /\ output_reprojection_errors = FreshOutput(all_camera_names).reprojection_errors
    /\ output_cam_counts = FreshOutput(all_camera_names).cam_counts
    /\ output_cam_bools = FreshOutput(all_camera_names).cam_bools
    /\ pair_results = [p \in AllPairs |-> NotProcessed]
    /\ pc = "gather"
    /\ valid_camera_names = <<>>
    /\ nb_cams_off = 0
    /\ error_min = Inf
    /\ Q_best = NoneQ
    /\ best_cam_indices = NoneIndices
    /\ triangulated = <<>>
    /\ result = NoResult
    /\ BestIdle
    /\ CallerIdle

\* Lines 319-346: the observations of one (frame, marker) pair are read from
\* the views that have curves for the marker.  Only the first view may give
\* a quality below the default min_quality; at most one camera subset
\* reprojects within the threshold, with an error equal to the threshold.
GatherPair ==
    /\ pc = "gather"
    /\ \E G \in SUBSET Range(ViewCameras) :
           \E q1 \in {0, MaxQuality} :
               LET q == [c \in G |-> IF c = ViewCameras[1] THEN q1 ELSE MaxQuality]
                   eligible == {c \in G : c \in calibrated /\ q[c] >= min_quality}
                   cands == {S \in SUBSET eligible : Cardinality(S) >= 2}
               IN  /\ camera_names' = SelectNames(ViewCameras, G, 1)
                   /\ quality' = q
                   /\ \E D \in {D \in SUBSET cands : Cardinality(D) <= 1} :
                          \E f \in [D -> {reproj_error_threshold}] :
                              mean_error' = SparseMap(cands, D, f)
    /\ pc' = "triangulate"
    /\ UNCHANGED <<calibrated, min_cameras, reproj_error_threshold, min_quality,
                   locals, result, facade_vars, best_vars, caller_vars>>

\* Lines 348-364, and the step to the next pair (lines 319-324).
TriangulatePair ==
    /\ pc = "triangulate"
    /\ LET pair == <<frame_offset, marker_idx>>
           n_points == Len(camera_names)
           r == IF n_points >= 2 THEN triangulate_point(min_quality) ELSE NoResult
           out == ProcessPair(Output, pair, n_points, r, all_camera_names)
           last_marker == marker_idx + 1 = num_markers
       IN  /\ output_locations' = out.locations
           /\ output_reprojection_errors' = out.reprojection_errors
           /\ output_cam_counts' = out.cam_counts
           /\ output_cam_bools' = out.cam_bools
           /\ pair_results' = [pair_results EXCEPT ![pair] =
                  [processed |-> TRUE, n_points |-> n_points, result |-> r]]
           /\ marker_idx' = IF last_marker THEN 0 ELSE marker_idx + 1
           /\ frame_offset' = IF last_marker THEN frame_offset + 1 ELSE frame_offset
           /\ pc' = IF last_marker /\ frame_offset + 1 = num_frames
                    THEN "done" ELSE "gather"
    /\ camera_names' = <<>>
    /\ quality' = <<>>
    /\ mean_error' = <<>>
    /\ UNCHANGED <<calibrated, min_cameras, reproj_error_threshold, min_quality,
                   locals, result, all_camera_names, best_vars, caller_vars>>

NextFacade == GatherPair \/ TriangulatePair

SpecFacade == InitFacade /\ [][NextFacade]_vars


\* ------------------------------------------------- the two forms together
\* triangulate_point and then triangulation_from_best_cameras on the same
\* observations: two or three calibrated cameras of likelihood MaxQuality,
\* the same camera floor (2 or more) and threshold, the swap disabled.
\* A configuration whose kept cameras are the first ones meets its own
\* projection matrices, so its error is the mean_error of those cameras; the
\* error of any other configuration is a value of its own.
FormsCameras == {SubSeq(FixtureCameras, 1, 2), FixtureCameras}
FormsErrors == {0, MaxErr - 1, MaxErr}

\* The cameras at the positions K, by name.
NamesAt(names, K) == {names[c + 1] : c \in K}
\* The first Cardinality(K) positions.
LeadingPositions(K) == 0..(Cardinality(K) - 1)

InitForms ==
    /\ camera_names \in FormsCameras
    /\ quality = [c \in Range(camera_names) |-> MaxQuality]
    /\ calibrated = Range(camera_names)
    /\ min_cameras \in DefaultMinCameras..MaxMinCameras
    /\ reproj_error_threshold \in Thresholds
    /\ min_quality = MaxQuality
    /\ mean_error \in [Candidates(min_quality) -> FormsErrors]
    /\ InitLocals
    /\ n_cams = Len(camera_names)
    /\ kpt_quality = [j \in 1..n_cams |-> MaxQuality]
    /\ error_threshold_triangulation = reproj_error_threshold
    /\ min_cameras_for_triangulation = min_cameras
    /\ handle_LR_swap = FALSE
    /\ cv2_bound \in BOOLEAN
    /\ LET configs == {K \in SUBSET (0..(n_cams - 1)) : Cardinality(K) >= 2}
           own == {K \in configs : K = LeadingPositions(K)}
       IN  \E other \in [configs \ own -> FormsErrors] :
               kernel = [key \in {<<ObsOf(n_cams, K, {}), Cardinality(K)>> : K \in configs} |->
                            LET K == {key[1][j][1] : j \in 1..Len(key[1])}
                            IN  IF K \in own THEN mean_error[NamesAt(camera_names, K)]
                                ELSE other[K]]
    /\ Q_out = UnboundSeq
    /\ best_cams = UnboundIndex
    /\ nb_cams_excluded = UnboundIndex
    /\ id_cams_off_tot = UnboundSeq
    /\ nb_cams_off_tot = UnboundIndex
    /\ x_filt = UnboundSeq
    /\ Q_filt = UnboundSeq
    /\ n_cams_swapped = UnboundIndex
    /\ error_off_swap_min = QNaN
    /\ id_off_cams = UnboundIndex
    /\ svd_inputs = {}
    /\ swap_log = <<>>
    /\ exception = "none"
    /\ returned = [Q |-> UnboundSeq, error_min |-> QNaN,
                   nb_cams_excluded |-> UnboundIndex, id_excluded_cams |-> UnboundSeq]
    /\ FacadeIdle
    /\ CallerIdle

\* The second form has not been called yet.
NotCalledYet == returned.nb_cams_excluded = UnboundIndex /\ exception = "none"

\* pose2sim lines 122-128: the second form is entered with the same
\* observations once the first has returned.
CallSecondForm ==
    /\ pc = "done"
    /\ NotCalledYet
    /\ pc' = "level"
    /\ nb_cams_off' = 0
    /\ error_min' = Inf
    /\ Q_best' = UnboundSeq
    /\ UNCHANGED <<best_inputs, best_locals, svd_inputs, swap_log, exception,
                   returned, core_idle, facade_vars, caller_vars>>

NextForms ==
    \/ Unpack \/ SearchLevel \/ ExitLoop \/ Format
    \/ CallSecondForm
    \/ BestLevel \/ BestExit \/ BestReturn

SpecForms == InitForms /\ [][NextForms]_vars

\* ------------------------------------------- termination of the search
\* The call on three calibrated cameras with every min_cameras from -1 on,
\* and errors that are low, high or missing (a NaN point).
TermErrors == {0, MaxErr, QNaN}

InitTerm ==
    /\ camera_names = FixtureCameras
    /\ quality \in [Range(FixtureCameras) -> Qualities]
    /\ calibrated = Range(FixtureCameras)
    /\ min_cameras \in (-1)..MaxMinCameras
    /\ reproj_error_threshold \in Thresholds
    /\ min_quality \in Qualities
    /\ mean_error \in [Candidates(min_quality) -> TermErrors]
    /\ InitLocals
    /\ BestIdle
    /\ FacadeIdle
    /\ CallerIdle

\* Lines 117 and 122: the loop condition holds for a cameras-off count above
\* n_cams (min_cameras is negative) and it.combinations raises ValueError.
CombinationsRaises ==
    /\ pc = "search"
    /\ LoopGuard(Len(valid_camera_names), nb_cams_off, min_cameras)
    /\ NegativeLength(Len(valid_camera_names), nb_cams_off)
    /\ pc' = "raised"
    /\ exception' = "ValueError"
    /\ UNCHANGED <<inputs, locals, result, best_inputs, best_locals, svd_inputs,
                   swap_log, returned, facade_vars, caller_vars>>

NextTerm == Unpack \/ SearchLevel \/ ExitLoop \/ Format \/ CombinationsRaises

\* The interpreter runs the call to its end: a step that can be taken is taken.
SpecTerm == InitTerm /\ [][NextTerm]_vars /\ WF_vars(NextTerm)

\* ------------------------------------------------ one call after another
\* The earlier calls a later call is observed after.
MaxEarlierCalls == 1

\* A frame that keeps the lowest error the last call left.
FreshFrame_Kept == [SearchStart EXCEPT !.error_min = error_min]
\* Lines 63-69, 112-116: the locals of a call belong to the call; the search
\* starts from the values assigned at lines 112-116.
FreshFrame == SearchStart

InitRepeat ==
    /\ InitConfig(FixtureCameras)
    /\ mean_error \in [Candidates(0) -> {0, MaxErr, QNaN}]
    /\ InitLocals
    /\ BestIdle
    /\ FacadeIdle
    /\ CallerIdle

\* The caller calls triangulate_point again, with the same dictionaries and
\* any min_cameras and min_quality.
CallAgain ==
    /\ pc = "done"
    /\ earlier_calls < MaxEarlierCalls
    /\ earlier_calls' = earlier_calls + 1
    /\ min_cameras' \in DefaultMinCameras..MaxMinCameras
    /\ min_quality' \in Qualities
    /\ \E frame \in {FreshFrame} :
           /\ nb_cams_off' = frame.nb_cams_off
           /\ error_min' = frame.error_min
           /\ Q_best' = frame.Q_best
           /\ best_cam_indices' = frame.best_cam_indices
           /\ triangulated' = frame.triangulated
    /\ valid_camera_names' = <<>>
    /\ result' = NoResult
    /\ pc' = "unpack"
    /\ UNCHANGED <<camera_names, quality, calibrated, reproj_error_threshold,
                   mean_error, best_vars, facade_vars, operator_vars>>

NextRepeat == Unpack \/ SearchLevel \/ ExitLoop \/ Format \/ CallAgain

SpecRepeat == InitRepeat /\ [][NextRepeat]_vars

\* ------------------------------------- PE_OT_TriangulatePerson.execute
\* Lines 321, 327: the defaults of the start_frame and end_frame properties.
DefaultStartFrame == 1
DefaultEndFrame == 250
FrameNumbers == {DefaultStartFrame, DefaultEndFrame}
\* Lines 305-309.
FrameRangeOptions == {"CURRENT_FRAME", "SCENE_RANGE", "CUSTOM_RANGE"}

\* The objects of the scene, and what pose_editor_object_type can hold.
SceneObjects == <<"PI.Alice", "Camera", "PI.Bob">>
ObjectTypes == {"Person", "MarkerData"}

\* person_facade.py lines 26-413: what an instance of
\* RealPersonInstanceFacade has, from __init__ and the class body.
FacadeAttributes ==
    {"obj", "person_id", "name", "create_new", "from_blender_obj", "get_by_id",
     "get_all", "_get_dataseries_for_view", "get_active_track_index_at_frame",
     "find_next_stitch_frame", "assign_source_track_for_segment", "triangulate"}

\* Lines 372-381: _get_frame_range.
GetFrameRange ==
    IF frame_range = "CURRENT_FRAME"
    THEN <<scene_frame_current, scene_frame_current>>
    ELSE IF frame_range = "SCENE_RANGE"
    THEN <<scene_frame_start, scene_frame_end>>
    ELSE IF frame_range = "CUSTOM_RANGE"
    THEN <<self_start_frame, self_end_frame>>
    ELSE <<scene_frame_start, scene_frame_end>>

\* person_facade.py lines 70-76: from_blender_obj gives a facade for the
\* objects whose type is "Person", None for the others.
IsPersonObject(obj) == object_type[obj] = "Person"

\* Lines 341-345: the facades of the selected objects, in selection order.
SelectedPersonFacades ==
    SelectNames(selected_objects,
                {obj \in Range(selected_objects) : IsPersonObject(obj)}, 1)

Report(level, text, name) == [level |-> level, text |-> text, name |-> name]

\* Lines 352-362: the body of the loop for one facade.  An attribute the
\* facade does not have raises AttributeError at line 354, which the except
\* clause reports; a call that is made returns or raises.
TryPerson(facade, first, last) ==
    LET baking == Report("INFO", "Baking stitching data", facade)
        triangulating == Report("INFO", "Triangulating", facade)
        failed == Report("ERROR", "Triangulation failed", facade)
        call == [facade |-> facade, frame_start |-> first, frame_end |-> last]
    IN  IF "bake_stitching_data" \in FacadeAttributes
        THEN {[reports |-> <<baking, failed>>, calls |-> <<>>],
              [reports |-> <<baking, triangulating>>, calls |-> <<call>>],
              [reports |-> <<baking, triangulating, failed>>, calls |-> <<call>>]}
        ELSE {[reports |-> <<baking, failed>>, calls |-> <<>>]}

InitOperator ==
    /\ frame_range \in FrameRangeOptions
    /\ self_start_frame \in FrameNumbers
    /\ self_end_frame \in FrameNumbers
    /\ scene_frame_current \in FrameNumbers
    /\ scene_frame_start \in FrameNumbers
    /\ scene_frame_end \in FrameNumbers
    /\ selected_objects \in
           {SelectNames(SceneObjects, chosen, 1) : chosen \in SUBSET Range(SceneObjects)}
    /\ object_type \in [Range(SceneObjects) -> ObjectTypes]
    /\ start_frame = 0
    /\ end_frame = 0
    /\ selected_person_facades = <<>>
    /\ facade_pos = 0
    /\ reports = <<>>
    /\ triangulate_calls = <<>>
    /\ op_pc = "execute"
    /\ op_result = {}
    /\ earlier_calls = 0
    /\ CoreIdle
    /\ pc = "idle"
    /\ nb_cams_off = 0
    /\ error_min = Inf
    /\ Q_best = NoneQ
    /\ BestIdle
    /\ FacadeIdle

operator_inputs == <<frame_range, self_start_frame, self_end_frame,
                     scene_frame_current, scene_frame_start, scene_frame_end,
                     selected_objects, object_type>>
not_operator == <<inputs, pc, locals, result, best_vars, facade_vars, earlier_calls>>

\* Lines 339-349: the frame range, the facades, and the return when there
\* is none.
Execute ==
    /\ op_pc = "execute"
    /\ start_frame' = GetFrameRange[1]
    /\ end_frame' = GetFrameRange[2]
    /\ selected_person_facades' = SelectedPersonFacades
    /\ IF SelectedPersonFacades = <<>>
       THEN /\ reports' = Append(reports, Report("WARNING", "No Real Person Instances selected.", ""))
            /\ op_result' = {"CANCELLED"}
            /\ op_pc' = "returned"
            /\ facade_pos' = facade_pos
       ELSE /\ facade_pos' = 1
            /\ op_pc' = "loop"
            /\ UNCHANGED <<reports, op_result>>
    /\ UNCHANGED <<operator_inputs, triangulate_calls, not_operator>>

\* Lines 351-362: one iteration of the for loop.
TriangulateFacade ==
    /\ op_pc = "loop"
    /\ facade_pos <= Len(selected_person_facades)
    /\ \E outcome \in TryPerson(selected_person_facades[facade_pos],
                                 start_frame, end_frame) :
           /\ reports' = reports \o outcome.reports
           /\ triangulate_calls' = triangulate_calls \o outcome.calls
    /\ facade_pos' = facade_pos + 1
    /\ UNCHANGED <<operator_inputs, start_frame, end_frame,
                   selected_person_facades, op_pc, op_result, not_operator>>

\* Lines 365-367: the last report and the return.
Finish ==
    /\ op_pc = "loop"
    /\ facade_pos > Len(selected_person_facades)
    /\ reports' = Append(reports, Report("INFO", "Triangulation finished", ""))
    /\ op_result' = {"FINISHED"}
    /\ op_pc' = "returned"
    /\ UNCHANGED <<operator_inputs, start_frame, end_frame,
                   selected_person_facades, facade_pos, triangulate_calls,
                   not_operator>>

NextOperator == Execute \/ TriangulateFacade \/ Finish

SpecOperator == InitOperator /\ [][NextOperator]_vars /\ WF_vars(NextOperator)

\* ----------------------------------------------------------------- claims
Done == pc = "done"
Returned == Done /\ ~result.is_none
NumValid == Len(ValidCameraNames(min_quality))
ContributingSet == Range(result.contributing_cameras)
\* The subsets of the eligible cameras the search may select.
Selectable ==
    {S \in Candidates(min_quality) : Cardinality(S) >= min_cameras}
HasError(S) == mean_error[S] # QNaN
WithinThreshold(S) == HasError(S) /\ mean_error[S] <= reproj_error_threshold
\* The subsets that were triangulated to a point and reprojected.
Reprojected == {S \in Range(triangulated) : Cardinality(S) >= 2 /\ HasError(S)}

\* C1: every result that is returned has at least min_cameras contributing
\* cameras and a reprojection error at or below the threshold; and when every
\* subset that was reprojected has an error above the threshold, the call
\* returns None.
C1_ResultMeetsFloorAndThreshold ==
    Done =>
        /\ (~result.is_none =>
              /\ Len(result.contributing_cameras) >= min_cameras
              /\ result.reprojection_error <= reproj_error_threshold)
        /\ ((\A S \in Reprojected : mean_error[S] > reproj_error_threshold)
              => result.is_none)

\* A result found after removing a camera, with exactly min_cameras cameras
\* and an error equal to the threshold.
C1_Witness ==
    /\ Returned
    /\ nb_cams_off > 0
    /\ Len(result.contributing_cameras) = min_cameras
    /\ result.reprojection_error = reproj_error_threshold

\* C2: with at least min_cameras eligible cameras, the call returns None
\* exactly when no subset of max(2, min_cameras) or more eligible cameras has
\* a mean error at or below the threshold.
C2_NoneOnlyIfEverySubsetAbove ==
    (Done /\ NumValid >= min_cameras) =>
        (result.is_none <=> \A S \in Selectable : ~WithinThreshold(S))

\* None after all four subsets of three cameras were reprojected, each above
\* the threshold.
C2_Witness ==
    /\ Done
    /\ result.is_none
    /\ Cardinality(Selectable) = 4
    /\ Reprojected = Selectable
    /\ \E S \in Selectable : mean_error[S] < Inf

\* The cameras-off count k is admissible: the loop visits it and its subsets
\* can be reprojected.
Admissible(k) == NumValid - k >= min_cameras /\ NumValid - k >= 2
\* The lowest mean error among the subsets of NumValid - k cameras is at or
\* below the threshold.
LevelWithinThreshold(k) ==
    \E S \in Selectable : Cardinality(S) = NumValid - k /\ WithinThreshold(S)
KStar(k) ==
    /\ Admissible(k)
    /\ LevelWithinThreshold(k)
    /\ \A j \in 0..(k - 1) : ~LevelWithinThreshold(j)

\* C3: with k* the smallest cameras-off count whose lowest mean error is at or
\* below the threshold, the search stops at level k*: no subset with more than
\* k* cameras removed is triangulated, and the result has NumValid - k* cameras.
C3_GreedyEarlyExit ==
    Done =>
        \A k \in 0..NumValid :
            KStar(k) =>
                /\ ~result.is_none
                /\ Len(result.contributing_cameras) = NumValid - k
                /\ \A S \in Range(triangulated) : Cardinality(S) >= NumValid - k

\* C4: a result never has fewer than two contributing cameras, whatever
\* min_cameras is, and a single eligible observation gives None.
C4_CameraFloor ==
    Done =>
        /\ (~result.is_none => Len(result.contributing_cameras) >= 2)
        /\ (NumValid = 1 => result.is_none)

\* One eligible camera, min_cameras below two: the single camera was handed
\* to weighted_triangulation and the call returned None.
C4_Witness ==
    /\ Done
    /\ NumValid = 1
    /\ min_cameras <= 1
    /\ triangulated # <<>>
    /\ result.is_none

\* C5: with fewer eligible observations than min_cameras the call has returned
\* None as soon as the filter is done, and no subset was triangulated.
C5_InsufficientCamerasReturnsAtOnce ==
    (pc # "unpack" /\ NumValid < min_cameras) =>
        /\ Done
        /\ result.is_none
        /\ triangulated = <<>>

\* Two eligible cameras out of three and min_cameras = 3: returned at once.
C5_Witness ==
    /\ Done
    /\ NumValid = 2
    /\ min_cameras = 3
    /\ triangulated = <<>>
    /\ result.is_none

\* The cameras with a calibration entry and a quality of at least min_quality.
CalibratedWithQuality ==
    {c \in Range(camera_names) : c \in calibrated /\ quality[c] >= min_quality}

\* C6: the cameras of the search are exactly those with a calibration entry
\* and a quality of at least min_quality: each of them is in the first subset
\* triangulated, and no other camera is in a triangulated subset or in the
\* contributing cameras.
C6_EligibilityFilter ==
    (pc # "unpack") =>
        /\ Range(valid_camera_names) = CalibratedWithQuality
        /\ \A S \in Range(triangulated) : S \subseteq CalibratedWithQuality
        /\ (triangulated # <<>> => triangulated[1] = CalibratedWithQuality)
        /\ ContributingSet \subseteq CalibratedWithQuality

\* A result from two cameras while the third, whose quality is high enough,
\* is left out because it has no calibration entry.
C6_Witness ==
    /\ Returned
    /\ Cardinality(CalibratedWithQuality) = 2
    /\ ContributingSet = CalibratedWithQuality
    /\ \E c \in Range(camera_names) : c \notin calibrated /\ quality[c] >= min_quality

\* C7: no camera whose observation has a quality of 0 or less is among the
\* contributing cameras, whatever min_quality is.
C7_ZeroQualityUnusable ==
    Returned => \A c \in ContributingSet : quality[c] > 0

AllValid == Range(ValidCameraNames(min_quality))
Triples == {S \in Candidates(min_quality) : Cardinality(S) = 3}
\* Leaving out camera o gives the one subset of three cameras that is below
\* the threshold and strictly better than every other subset of three.
OutlierIs(o) ==
    LET T == AllValid \ {o}
    IN  /\ o \in AllValid
        /\ HasError(T)
        /\ mean_error[T] < reproj_error_threshold
        /\ \A U \in Triples \ {T} : HasError(U) => mean_error[T] < mean_error[U]
OutlierCase(o) ==
    /\ NumValid = 4
    /\ min_cameras <= 3
    /\ HasError(AllValid)
    /\ mean_error[AllValid] > reproj_error_threshold
    /\ OutlierIs(o)

\* C8: four eligible cameras, min_cameras at most 3, the error of all four
\* above the threshold, and the subset without camera o below the threshold
\* and strictly better than every other subset of three: the result is exactly
\* the three cameras other than o, with an error below the threshold.
C8_OutlierExclusion ==
    Done =>
        \A o \in Range(camera_names) :
            OutlierCase(o) =>
                /\ ~result.is_none
                /\ result.contributing_cameras =
                       SelectNames(ValidCameraNames(min_quality), AllValid \ {o}, 1)
                /\ result.reprojection_error < reproj_error_threshold

\* The outlier is the second camera, so the winner is neither the first nor
\* the last subset enumerated, and another subset of three is also below the
\* threshold.
C8_Witness ==
    /\ Done
    /\ OutlierCase("cam2")
    /\ \E U \in Triples : "cam2" \in U /\ WithinThreshold(U)
    /\ result.contributing_cameras = <<"cam1", "cam3", "cam4">>

RECURSIVE IndicesOf(_, _, _)
\* The ascending tuple of positions (from 0) of the cameras of S in `valid`.
IndicesOf(valid, S, i) ==
    IF i > Len(valid) THEN <<>>
    ELSE (IF valid[i] \in S THEN <<i - 1>> ELSE <<>>) \o IndicesOf(valid, S, i + 1)
\* Lexicographic order of two index tuples of the same length.
LexBefore(a, b) ==
    \E i \in 1..Len(a) : a[i] < b[i] /\ \A j \in 1..(i - 1) : a[j] = b[j]
\* S comes before W in the enumeration: fewer cameras off, or the same count
\* and an earlier combination.
EnumeratedBefore(S, W) ==
    \/ Cardinality(S) > Cardinality(W)
    \/ /\ Cardinality(S) = Cardinality(W)
       /\ LexBefore(IndicesOf(ValidCameraNames(min_quality), S, 1),
                    IndicesOf(ValidCameraNames(min_quality), W, 1))
\* The selectable subsets with the same mean error as the result.
TiedWithResult ==
    {S \in Selectable : HasError(S) /\ mean_error[S] = result.reprojection_error}

\* C9: among the subsets whose mean error equals that of the result, the
\* returned one is the first in the enumeration order (smaller cameras-off
\* count first, then ascending lexicographic order of the indices).
C9_TieBreakFirstEnumerated ==
    Returned =>
        /\ ContributingSet \in TiedWithResult
        /\ \A S \in TiedWithResult : ~EnumeratedBefore(S, ContributingSet)

\* A three-way tie at the threshold between all three cameras and two pairs,
\* all of them reprojected: the result is the three cameras.
C9_Witness ==
    /\ Returned
    /\ Cardinality(TiedWithResult) = 3
    /\ TiedWithResult \subseteq Reprojected
    /\ Len(result.contributing_cameras) = 3

\* The number of contributing cameras of a call, 0 for None.
ContributingCount(r) == IF r.is_none THEN 0 ELSE Len(r.contributing_cameras)

\* C10: for q2 >= min_quality, the cameras eligible under q2 are a subset of
\* those eligible under min_quality, and the call with q2 returns no more
\* contributing cameras than the call with min_quality.
C10_QualityMonotonicity ==
    Done =>
        \A q2 \in min_quality..(MaxQuality + 1) :
            /\ Range(ValidCameraNames(q2)) \subseteq Range(ValidCameraNames(min_quality))
            /\ ContributingCount(triangulate_point(q2)) <= ContributingCount(result)

\* C11: reprojection consistency.  In every returned result the point, the
\* error and the contributing cameras belong to one evaluated candidate: the
\* contributing cameras were handed to weighted_triangulation as one subset,
\* point_3d is the point solved from exactly that subset, and
\* reprojection_error is the mean reprojection distance over exactly that
\* subset.
C11_ReprojectionConsistency ==
    Returned =>
        /\ ContributingSet \in Range(triangulated)
        /\ Cardinality(ContributingSet) = Len(result.contributing_cameras)
        /\ result.point_3d = weighted_triangulation(ContributingSet)
        /\ result.reprojection_error = MeanReprojError(ContributingSet)

\* A result found after a level was dropped, with another candidate of a
\* different error evaluated on the way.
C11_Witness ==
    /\ Returned
    /\ nb_cams_off >= 1
    /\ \E i \in 1..Len(triangulated) :
           /\ triangulated[i] # ContributingSet
           /\ weighted_triangulation(triangulated[i]) # NaNQ
           /\ MeanReprojError(triangulated[i]) # result.reprojection_error

\* ------------------------------------------- claims about the prototype
BestReturned == pc = "done" /\ exception = "none"
Raised == pc = "raised"
UsableCount == Cardinality(Usable(kpt_quality))
\* A pass of the swap loop met the threshold.
MetThreshold(entry) ==
    \E p \in 1..Len(entry.error_off_swap) :
        entry.error_off_swap[p] <= error_threshold_triangulation

\* C12: final failure policy of triangulation_from_best_cameras.  Whenever
\* the best mean error held when the search ends (after any swap attempt, or
\* with no level searched at all) exceeds the threshold, the function returns
\* the all-NaN point and a NaN error; whatever error it returns is at or
\* below the threshold and is the error held, with the point held.
C12_FinalFailurePolicy ==
    BestReturned =>
        /\ Exceeds(error_min, error_threshold_triangulation) =>
               returned.Q = NaNPoint3 /\ returned.error_min = QNaN
        /\ returned.error_min # QNaN =>
               /\ returned.error_min <= error_threshold_triangulation
               /\ returned.error_min = error_min
               /\ returned.Q = Q_out

\* The search ended after a swap attempt with a finite error above the
\* threshold, and the call returned the no-result value.
C12_Witness ==
    /\ BestReturned
    /\ swap_log # <<>>
    /\ error_min < Inf
    /\ Exceeds(error_min, error_threshold_triangulation)
    /\ returned.Q = NaNPoint3

\* C13: triangulation_from_best_cameras never raises: for an input of
\* n >= 0 cameras, a positive camera floor and at least that many usable
\* observations, the call does not end in an exception.
C13_NeverRaises ==
    (min_cameras_for_triangulation >= 1 /\ UsableCount >= min_cameras_for_triangulation)
        => ~Raised

\* C17: left/right swap bound.  Every swap combination the swap search
\* enumerates is strictly smaller than half of the cameras remaining after
\* exclusion (n_cams - nb_cams_off_tot).
C17_SwapBound ==
    \A i \in 1..Len(swap_log) :
        \A j \in 1..Len(swap_log[i].id_cams_swapped) :
            2 * Len(swap_log[i].id_cams_swapped[j]) < swap_log[i].remaining

\* Two-camera swaps were enumerated (five cameras remain), after the
\* one-camera swaps.
C17_Witness ==
    \E i \in 1..Len(swap_log) :
        /\ swap_log[i].n_cams_swapped = 2
        /\ Len(swap_log[i].id_cams_swapped) > 1

\* C18: the swap search stops at the first swap count at which some swapped
\* configuration has a mean error at or below the threshold: once a pass of
\* the swap loop met the threshold, no larger swap count is enumerated at
\* that cameras-off level.
C18_SwapStopsAtFirstSuccess ==
    \A i \in 1..Len(swap_log) :
        MetThreshold(swap_log[i]) =>
            \A j \in 1..Len(swap_log) :
                swap_log[j].nb_cams_off = swap_log[i].nb_cams_off =>
                    swap_log[j].n_cams_swapped <= swap_log[i].n_cams_swapped

\* The swap search of a level has ended after the one-camera swaps met the
\* threshold, although two-camera swaps were within the swap bound.
C18_Witness ==
    /\ pc # "swap"
    /\ \E i \in 1..Len(swap_log) :
           /\ swap_log[i].n_cams_swapped = 1
           /\ MetThreshold(swap_log[i])
           /\ 2 * 2 < swap_log[i].remaining

\* The arrays of the current level and the points solved from them.
LevelCalls ==
    IF exception = "NameError" \/ Len(Q_filt) # Len(x_filt) THEN {}
    ELSE {[obs |-> x_filt[i], Q |-> Q_filt[i]] : i \in 1..Len(x_filt)}

\* C19 as stated: weighted_triangulation called with fewer than 2
\* observations (fewer than 4 rows) performs no SVD and returns a point all
\* of whose components are NaN.
C19_SentinelAllNaN ==
    \A call \in LevelCalls :
        Len(call.obs) < 2 =>
            /\ call.obs \notin svd_inputs
            /\ \A j \in 1..Len(call.Q) : call.Q[j].nan

\* C19 amended: weighted_triangulation called with fewer than 2
\* observations performs no SVD and returns the homogeneous sentinel
\* (NaN, NaN, NaN, 1): three NaN coordinates and the fourth component 1.
C19_SentinelHomogeneous ==
    \A call \in LevelCalls :
        Len(call.obs) < 2 =>
            /\ call.obs \notin svd_inputs
            /\ call.Q = <<NaNComponent, NaNComponent, NaNComponent, One>>

\* A level whose configurations include one with a single observation.
C19_Witness ==
    \E call \in LevelCalls : Len(call.obs) = 1

\* ------------------------------------------ claims about the batch loop
FacadeDone == pc = "done"
Processed(p) == pair_results[p].processed
\* The pair gave no result: too few observations, or None from the call.
Failed(p) ==
    Processed(p) /\ (pair_results[p].n_points < 2 \/ pair_results[p].result.is_none)
Stored(p) == Processed(p) /\ ~Failed(p)
\* Pair q comes after pair p in the loop of lines 319-320.
Later(q, p) == q[1] > p[1] \/ (q[1] = p[1] /\ q[2] > p[2])

\* The slots of a (frame, marker) pair in the four output arrays.
SlotLocation(p) == [j \in 1..3 |-> output_locations[p[1] + 1][p[2] * 3 + j]]
SlotError(p) == output_reprojection_errors[p[1] + 1][p[2] + 1]
SlotCount(p) == output_cam_counts[p[1] + 1][p[2] + 1]
SlotFlags(p) ==
    [i \in 1..Len(all_camera_names) |->
        output_cam_bools[p[1] + 1][p[2] * Len(all_camera_names) + i]]
TrueFlags(p) == {i \in 1..Len(all_camera_names) : SlotFlags(p)[i]}

\* C14: a (frame, marker) pair without a result (fewer than 2 gathered
\* observations, or None from triangulate_point) leaves its slot at the
\* failure value (NaN location, NaN error, count 0, every flag False) and
\* does not abort the batch: the loop goes on to the later pairs, and when it
\* ends every pair has been processed.
C14_FailedPairKeepsFailureValue ==
    /\ \A p \in AllPairs :
           Failed(p) =>
               /\ SlotLocation(p) = <<NaNQ, NaNQ, NaNQ>>
               /\ SlotError(p) = QNaN
               /\ SlotCount(p) = 0
               /\ TrueFlags(p) = {}
               /\ FacadeDone \/ Later(<<frame_offset, marker_idx>>, p)
    /\ FacadeDone => \A p \in AllPairs : Processed(p)

\* The batch ended after a pair with too few observations and a pair for
\* which the call gave None, each followed by a pair that was stored.
C14_Witness ==
    /\ FacadeDone
    /\ \E p \in AllPairs, q \in AllPairs :
           /\ Failed(p) /\ pair_results[p].n_points < 2
           /\ Failed(q) /\ pair_results[q].n_points >= 2
           /\ \E later \in AllPairs :
                  Later(later, p) /\ Later(later, q) /\ Stored(later)

RECURSIVE ReplayIn(_, _, _)
\* The loop body applied to the pairs in the given order.
ReplayIn(order, i, out) ==
    IF i > Len(order) THEN out
    ELSE ReplayIn(order, i + 1,
                  ProcessPair(out, order[i], pair_results[order[i]].n_points,
                              pair_results[order[i]].result, all_camera_names))

Orders ==
    {o \in [1..Cardinality(AllPairs) -> AllPairs] :
        \A i \in DOMAIN o, j \in DOMAIN o : i # j => o[i] # o[j]}

\* C15: the batch loop is order-insensitive.  Processing a pair writes only
\* that pair's own slots, so the slots of a pair not yet processed still hold
\* the initial values, and processing the pairs of the range in any order
\* yields the output arrays the loop produced.
C15_OrderInsensitive ==
    /\ \A p \in AllPairs :
           ~Processed(p) =>
               /\ SlotLocation(p) = <<NaNQ, NaNQ, NaNQ>>
               /\ SlotError(p) = QNaN
               /\ SlotCount(p) = 0
               /\ TrueFlags(p) = {}
    /\ FacadeDone =>
           \A order \in Orders :
               ReplayIn(order, 1, FreshOutput(all_camera_names)) = Output

\* The batch ended with two markers of one frame stored with different
\* points and different camera sets.
C15_Witness ==
    /\ FacadeDone
    /\ \E p \in AllPairs, q \in AllPairs :
           /\ p[1] = q[1] /\ p[2] # q[2]
           /\ Stored(p) /\ Stored(q)
           /\ pair_results[p].result.point_3d # pair_results[q].result.point_3d

\* C16: for every slot written, the flag of a known camera is True exactly
\* when the camera is among the result's contributing cameras, and the
\* stored count equals the number of the slot's flags that are True.
C16_FlagsMatchContributingCameras ==
    \A p \in AllPairs :
        Stored(p) =>
            /\ \A i \in 1..Len(all_camera_names) :
                   SlotFlags(p)[i] <=>
                       all_camera_names[i] \in
                           Range(pair_results[p].result.contributing_cameras)
            /\ SlotCount(p) = Cardinality(TrueFlags(p))
            /\ SlotCount(p) = Len(pair_results[p].result.contributing_cameras)

\* A slot written from two of three known cameras, next to a slot written
\* from all three.
C16_Witness ==
    \E p \in AllPairs, q \in AllPairs :
        /\ Stored(p) /\ Stored(q)
        /\ Len(all_camera_names) = 3
        /\ SlotCount(p) = 2
        /\ SlotCount(q) = 3

\* ---------------------------------- further claims about triangulate_point
\* The cameras of the tracked best_cam_indices.
TrackedSet == CamSet(valid_camera_names, best_cam_indices)

\* C21: global-best invariant of triangulate_point.  After each cameras-off
\* level the tracked error_min is the lowest mean error of all candidates
\* evaluated so far across all levels (np.inf while none was below it), the
\* tracked Q_best and best_cam_indices are the point and the cameras of one
\* evaluated candidate with that error, and error_min never increases from
\* one level to the next.
C21_GlobalBestInvariant ==
    /\ [](/\ \A S \in Reprojected : error_min <= mean_error[S]
          /\ (Q_best = NoneQ) =>
                 /\ error_min = Inf
                 /\ best_cam_indices = NoneIndices
          /\ (Q_best # NoneQ) =>
                 /\ TrackedSet \in Reprojected
                 /\ mean_error[TrackedSet] = error_min
                 /\ Q_best = weighted_triangulation(TrackedSet))
    /\ [][error_min' <= error_min]_vars

\* The best of the first level is still tracked after a later level whose
\* candidates were all evaluated with a higher error.
C21_Witness ==
    /\ pc = "format"
    /\ nb_cams_off >= 1
    /\ Q_best # NoneQ
    /\ Len(best_cam_indices) = Len(valid_camera_names)
    /\ \E S \in Reprojected :
           /\ Cardinality(S) < Len(best_cam_indices)
           /\ mean_error[S] > error_min

\* ------------------------------ further claims about the prototype
\* The coordinates a swap candidate should hold: the swapped ones at the
\* positions of the combination, the original ones elsewhere.
SwappedExactly(cand, combination) ==
    \A pos \in 1..Len(cand) :
        cand[pos] = IF (pos - 1) \in Range(combination)
                    THEN Swapped(cand[pos][1]) ELSE Original(cand[pos][1])

\* C22: in the swap search the candidate evaluated for a swap combination c
\* holds the swapped coordinates for exactly the cameras of c and the original
\* coordinates for every other remaining camera, and the non-swapped
\* coordinate arrays x_filt, y_filt are left as they were.
C22_SwapCandidatesIndependent ==
    /\ \A i \in 1..Len(swap_log) :
           \A id_off \in 1..Len(swap_log[i].x_filt_off_swap) :
               \A id_swapped \in 1..Len(swap_log[i].id_cams_swapped) :
                   SwappedExactly(swap_log[i].x_filt_off_swap[id_off][id_swapped],
                                  swap_log[i].id_cams_swapped[id_swapped])
    /\ \A id_off \in 1..Len(x_filt) :
           \A pos \in 1..Len(x_filt[id_off]) : x_filt[id_off][pos][2] = "orig"

\* C23: in every candidate evaluated by triangulation_from_best_cameras, for
\* any cameras-off count, the j-th observation handed to
\* weighted_triangulation and compared with the j-th reprojection belongs to
\* the camera whose projection matrix it is paired with.
C23_ObservationMeetsOwnMatrix ==
    \A obs \in svd_inputs :
        \A j \in 1..Len(obs) : obs[j][1] = MatrixCamera(j)

\* The cameras-off count k is permissible: n - k >= min_cameras_for_triangulation.
Permissible(k) == n_cams - k >= min_cameras_for_triangulation

\* C24 as stated: with handle_LR_swap enabled the swap search is invoked only
\* after every permissible cameras-off count has been searched: every pass of
\* the swap loop belongs to the last permissible cameras-off count.
C24_SwapOnlyAfterLastLevel ==
    \A i \in 1..Len(swap_log) : ~Permissible(swap_log[i].nb_cams_off + 1)

\* C24 amended: the swap search is part of each cameras-off level.  A level
\* whose best non-swapped error is above the threshold enters the swap search
\* when handle_LR_swap is enabled, and goes on to the next cameras-off count
\* without it only otherwise; the passes of the swap loop of a level all come
\* before the next cameras-off count is searched.
C24_SwapWithinEachLevel ==
    /\ [](\A i \in 1..Len(swap_log) :
              /\ swap_log[i].nb_cams_off <= nb_cams_off
              /\ swap_log[i].nb_cams_off = nb_cams_off => pc = "swap"
              /\ \A j \in 1..(i - 1) :
                     swap_log[j].nb_cams_off <= swap_log[i].nb_cams_off)
    /\ [][/\ (pc = "level" /\ pc' = "swap") =>
                 /\ handle_LR_swap
                 /\ Exceeds(error_min', error_threshold_triangulation)
                 /\ nb_cams_off' = nb_cams_off
          /\ (pc = "level" /\ pc' = "level") =>
                 ~(handle_LR_swap /\ Exceeds(error_min', error_threshold_triangulation))
          /\ swap_log' # swap_log => (pc = "swap" /\ nb_cams_off' = nb_cams_off)]_vars

\* The swap loop ran at cameras-off count 0 and again at cameras-off count 1,
\* both permissible.
C24_Witness ==
    /\ Len(swap_log) >= 2
    /\ swap_log[1].nb_cams_off = 0
    /\ swap_log[2].nb_cams_off = 1
    /\ Permissible(1)
    /\ min_cameras_for_triangulation >= 2

\* The passes of the swap loop at the cameras-off count k.
SwapPassesAt(k) == {i \in 1..Len(swap_log) : swap_log[i].nb_cams_off = k}
\* The mean errors of the swapped configurations evaluated at count k.
SwappedErrorsAt(k) ==
    UNION {Range(swap_log[i].error_off_swap) : i \in SwapPassesAt(k)} \ {QNaN}
LowestOf(errs) == CHOOSE e \in errs : \A f \in errs : e <= f
\* The configuration at position p (row-major, from 1) of a pass.
ConfigAt(entry, p) ==
    entry.x_filt_off_swap[((p - 1) \div Len(entry.id_cams_swapped)) + 1]
                         [((p - 1) % Len(entry.id_cams_swapped)) + 1]
RowOf(entry, p) == (p - 1) \div Len(entry.id_cams_swapped)

\* C25: when the swap search of a cameras-off level ends, if a swapped
\* configuration evaluated at any swap count of that level had a mean error
\* below the best non-swapped error of the level, the tracked best is
\* replaced: error_min becomes the lowest swapped error of the level, and
\* best_cams and Q become the row and the point of a swapped configuration
\* with that error.
C25_SwappedBestReplaces ==
    [][(pc = "swap" /\ pc' = "level") =>
          LET errs == SwappedErrorsAt(nb_cams_off)
          IN  (\E e \in errs : e < error_min) =>
                  /\ error_min' = LowestOf(errs)
                  /\ \E i \in SwapPassesAt(nb_cams_off) :
                         \E p \in 1..Len(swap_log[i].error_off_swap) :
                             /\ swap_log[i].error_off_swap[p] = LowestOf(errs)
                             /\ best_cams' = RowOf(swap_log[i], p)
                             /\ Q_out' = DropLast(Pose2Sim_weighted_triangulation(
                                             ConfigAt(swap_log[i], p)))]_vars

\* A level ended after two passes of the swap loop with a swapped
\* configuration tracked whose error is below the non-swapped error of the
\* level and still above the threshold.
C25_Witness ==
    /\ pc = "level"
    /\ nb_cams_off >= 1
    /\ Cardinality(SwapPassesAt(nb_cams_off - 1)) >= 2
    /\ error_min = LowestOf(SwappedErrorsAt(nb_cams_off - 1))
    /\ error_min < MaxErr
    /\ Exceeds(error_min, error_threshold_triangulation)
    /\ Q_out # UnboundSeq
    /\ \E j \in 1..Len(Q_out[1].solved_from) : Q_out[1].solved_from[j][2] = "swap"

\* The swap counts of the passes logged at the cameras-off count k.
SwapCountsAt(k) == {swap_log[i].n_cams_swapped : i \in SwapPassesAt(k)}

\* C26 as stated: the swap counts tried are 1, 2, ..., floor((n - excluded) / 2) - 1
\* for every number of remaining cameras: no pass of the swap loop has a
\* larger swap count.
C26_SwapCountsUpToFloorHalfMinusOne ==
    \A i \in 1..Len(swap_log) :
        swap_log[i].n_cams_swapped <= (swap_log[i].remaining \div 2) - 1

\* C26 amended: the swap counts tried at a cameras-off level are exactly
\* 1, 2, ..., m, each once, where every count satisfies 2 * count < remaining
\* (remaining = n - excluded), and m is the largest such count unless the
\* pass with count m met the threshold: up to ceil(remaining / 2) - 1, which
\* for an odd number of remaining cameras is floor(remaining / 2).
C26_SwapCountsBelowHalf ==
    [][(pc = "swap" /\ pc' = "level") =>
          LET remaining == n_cams - nb_cams_off_tot
              passes == SwapPassesAt(nb_cams_off)
              m == Cardinality(passes)
          IN  /\ SwapCountsAt(nb_cams_off) = 1..m
              /\ m >= 1 => 2 * m < remaining
              /\ 2 * (m + 1) < remaining =>
                     \E i \in passes :
                         /\ swap_log[i].n_cams_swapped = m
                         /\ MetThreshold(swap_log[i])]_vars

\* A swap search over five remaining cameras ended after the swap counts 1
\* and 2, neither of which met the threshold.
C26_Witness ==
    /\ pc = "level"
    /\ nb_cams_off >= 1
    /\ SwapCountsAt(nb_cams_off - 1) = {1, 2}
    /\ \A i \in SwapPassesAt(nb_cams_off - 1) :
           /\ swap_log[i].remaining = 5
           /\ ~MetThreshold(swap_log[i])

\* -------------------------------------------- claims about the two forms
SecondFormReturned == pc = "done" /\ returned.nb_cams_excluded # UnboundIndex
SecondFormSucceeded == SecondFormReturned /\ returned.error_min # QNaN
\* The cameras the second form does not list in id_excluded_cams, by name.
NotExcluded ==
    NamesAt(camera_names, (0..(n_cams - 1)) \ Range(returned.id_excluded_cams))

\* C27: with the swap disabled, for the same eligible observations,
\* threshold and camera floor of 2 or more, the second form returns (does not
\* raise), both forms agree on success versus failure, and on success the
\* cameras not listed in id_excluded_cams are exactly triangulate_point's
\* contributing cameras.
C27_FormsAgree ==
    /\ ~Raised
    /\ SecondFormReturned =>
           /\ SecondFormSucceeded <=> ~result.is_none
           /\ SecondFormSucceeded => NotExcluded = ContributingSet

\* ------------------------------------------ claims about termination
\* The iterations of the while loop begun so far: the completed ones, and the
\* one that left by `break` or by an exception.
LevelsVisited ==
    nb_cams_off +
        (IF /\ pc \in {"format", "done", "raised"}
            /\ LoopGuard(Len(valid_camera_names), nb_cams_off, min_cameras)
            /\ ~InsufficientCameras(Len(valid_camera_names), min_cameras)
         THEN 1 ELSE 0)
LevelBound ==
    IF Len(valid_camera_names) - min_cameras + 1 > 0
    THEN Len(valid_camera_names) - min_cameras + 1 ELSE 0
\* The call has ended, by a return or by an exception.
Ended == pc \in {"done", "raised"}

\* C28: the search loop of triangulate_point terminates for every input and
\* every min_cameras: the call ends, the cameras-off count grows by one on
\* every iteration that does not leave the loop (also when no candidate could
\* be evaluated), at most n - min_cameras + 1 levels are visited, and the
\* subsets handed to weighted_triangulation are finitely many (fewer than
\* 2^n).
C28_SearchTerminates ==
    /\ <>Ended
    /\ [](pc # "unpack" =>
              /\ LevelsVisited <= LevelBound
              /\ Len(triangulated) < 2 ^ Len(valid_camera_names))
    /\ [][(pc = "search" /\ pc' = "search") => nb_cams_off' = nb_cams_off + 1]_vars

\* The call ended after every level was visited and none gave a candidate.
C28_Witness ==
    /\ pc = "done"
    /\ min_cameras = 0
    /\ Len(valid_camera_names) = 3
    /\ nb_cams_off = 4
    /\ Reprojected = {}
    /\ Len(triangulated) = 7

\* ------------------------------------------ claims about side effects
\* C29: triangulate_point is side-effect free: no step of a call changes one
\* of its arguments, and when a call returns, also after an earlier call, the
\* result is the function of the call's own arguments.
C29_SideEffectFree ==
    /\ [](pc = "done" => result = triangulate_point(min_quality))
    /\ [][pc # "done" => UNCHANGED inputs]_vars

\* A later call returned a point.
C29_Witness ==
    /\ pc = "done"
    /\ earlier_calls = MaxEarlierCalls
    /\ result # NoResult

\* ------------------------------------------ claims about the operator
CallsFor(facade) ==
    {i \in 1..Len(triangulate_calls) : triangulate_calls[i].facade = facade}

\* C30: execute, given at least one selected Real Person Instance, ends by
\* returning FINISHED after the report that triangulation finished, and by
\* then facade.triangulate was called exactly once for every selected
\* person, with the frame range the frame_range option chooses.
C30_TriangulatesEverySelectedPerson ==
    /\ <>(op_pc = "returned")
    /\ []((op_pc = "returned" /\ SelectedPersonFacades # <<>>) =>
              /\ op_result = {"FINISHED"}
              /\ reports[Len(reports)].text = "Triangulation finished"
              /\ \A facade \in Range(SelectedPersonFacades) :
                     /\ Cardinality(CallsFor(facade)) = 1
                     /\ \A i \in CallsFor(facade) :
                            /\ triangulate_calls[i].frame_start = GetFrameRange[1]
                            /\ triangulate_calls[i].frame_end = GetFrameRange[2])

====
